---- MODULE Spec2Model ----
(***************************************************************************)
(* Model of src/bin/prov_cli.rs: the parameter envelope (MlParams::to_vec, *)
(* MlParams::from_reader) and the two runs of the operator                 *)
(* (Operator::generate_ml_proof, Operator::verify_ml_proof).               *)
(*                                                                         *)
(* Bytes are integers 0..255 and a Vec<u8> is a sequence of them.  The     *)
(* halo2 primitives the file calls (Params::read/write, keygen_vk,         *)
(* keygen_pk, create_proof, verify_proof, Fr::to_bytes/from_bytes,         *)
(* bincode) are modelled by their documented behaviour at the call sites.  *)
(***************************************************************************)
EXTENDS Integers, Sequences

(* ------------------------------ bounds -------------------------------- *)

\* largest trace-size exponent k of a circuit / parameter set
MaxK == 2
\* largest number of public outputs of a circuit
MaxOutputs == 2

(* ------------------------------ options ------------------------------- *)

None == <<>>
Some(x) == <<x>>
IsSome(o) == Len(o) = 1
Unwrap(o) == o[1]

(* ------------------------------- bytes -------------------------------- *)

RECURSIVE Pow2(_)
Pow2(n) == IF n = 0 THEN 1 ELSE 2 * Pow2(n - 1)

Take(s, n) == SubSeq(s, 1, n)
Drop(s, n) == SubSeq(s, n + 1, Len(s))

RECURSIVE Flatten(_)
Flatten(ss) == IF ss = <<>> THEN <<>> ELSE Head(ss) \o Flatten(Tail(ss))

\* u64::to_le_bytes of a length (bincode's fixed-width length prefix)
U64LE(n) == <<n % 256, (n \div 256) % 256, (n \div 65536) % 256, 0, 0, 0, 0, 0>>
\* u32::to_le_bytes
U32LE(n) == <<n % 256, (n \div 256) % 256, (n \div 65536) % 256, 0>>

\* the value of a little-endian integer when it is below 2^16, else -1
\* (a length or exponent that large exceeds every buffer considered)
SmallLE(b) ==
  IF \E i \in 3..Len(b) : b[i] # 0 THEN -1 ELSE b[1] + 256 * b[2]

(* --------------------------- field elements --------------------------- *)

\* width of one encoded field element: the 32 of from_reader's chunking
FrBytes == 32

\* Fr is held as 16 little-endian 16-bit limbs (the four u64 limbs of the
\* bn256 scalar, each split in four so that every digit stays within 32-bit
\* integer arithmetic).
FrLimbs == 16

\* the scalar-field modulus r of bn256,
\* 0x30644e72e131a029b85045b68181585d2833e84879b9709143e1f593f0000001
FrModulus ==
  <<1, 61440, 62867, 17377, 28817, 31161, 59464, 10291,
    22621, 33153, 17846, 47184, 41001, 57649, 20082, 12388>>

\* a < b for two little-endian limb vectors of the same length
RECURSIVE LimbsLess(_, _, _)
LimbsLess(a, b, i) ==
  IF i = 0 THEN FALSE
  ELSE IF a[i] # b[i] THEN a[i] < b[i]
  ELSE LimbsLess(a, b, i - 1)

FrFromU64(n) == [i \in 1..FrLimbs |-> IF i = 1 THEN n ELSE 0]
\* r - 1, the largest field element
FrMax == [i \in 1..FrLimbs |-> IF i = 1 THEN 0 ELSE FrModulus[i]]

\* Fr::to_bytes writing the most significant byte first
Fr_to_bytes_be(x) ==
  [i \in 1..FrBytes |->
     LET j == FrBytes + 1 - i
     IN IF j % 2 = 1 THEN x[(j + 1) \div 2] % 256 ELSE x[j \div 2] \div 256]

\* Fr::to_bytes: the canonical 32-byte little-endian encoding
Fr_to_bytes(x) ==
  [i \in 1..FrBytes |->
     IF i % 2 = 1 THEN x[(i + 1) \div 2] % 256 ELSE x[i \div 2] \div 256]

\* Fr::from_bytes: a CtOption, none when the value is not below the modulus
Fr_from_bytes(b) ==
  LET x == [i \in 1..FrLimbs |-> b[2 * i - 1] + 256 * b[2 * i]]
  IN IF LimbsLess(x, FrModulus, FrLimbs) THEN Some(x) ELSE None

(* ----------------------- commitment parameters ------------------------ *)

\* The group is scaled down to the integers modulo GroupOrder, a point
\* being encoded on PointBytes little-endian bytes.
GroupOrder == 32749
PointBytes == 2
Generator == 3

RECURSIVE PowMod(_, _)
PowMod(s, e) == IF e = 0 THEN 1 ELSE (s * PowMod(s, e - 1)) % GroupOrder

\* ParamsKZG::setup(k, rng): the powers of the secret drawn from rng
ParamsSetup(k, rng) ==
  [k |-> k,
   g |-> [i \in 1..Pow2(k) |-> (Generator * PowMod(rng, i - 1)) % GroupOrder],
   s_g2 |-> (Generator * rng) % GroupOrder]

PointToBytes(p) == <<p % 256, p \div 256>>

\* Params::write: k, then the points of g, then s_g2
ParamsWrite(p) ==
  U32LE(p.k) \o Flatten([i \in 1..Len(p.g) |-> PointToBytes(p.g[i])])
             \o PointToBytes(p.s_g2)

PointFromBytes(b) == b[1] + 256 * b[2]

\* Params::read: io::Result<ParamsKZG>; an error on a short read or on a
\* point encoding that is not a group element
ParamsRead(b) ==
  IF Len(b) < 4 THEN [ok |-> FALSE, val |-> None, why |-> "io: unexpected eof"]
  ELSE
    LET k == SmallLE(Take(b, 4))
        body == Drop(b, 4)
    IN IF k < 0 \/ k > 12 \/ Len(body) < (Pow2(k) + 1) * PointBytes
       THEN [ok |-> FALSE, val |-> None, why |-> "io: unexpected eof"]
       ELSE
         LET n == Pow2(k)
             pt(i) == PointFromBytes(SubSeq(body, PointBytes * (i - 1) + 1, PointBytes * i))
         IN IF \E i \in 1..(n + 1) : pt(i) >= GroupOrder
            THEN [ok |-> FALSE, val |-> None, why |-> "io: invalid point encoding"]
            ELSE [ok |-> TRUE,
                  val |-> Some([k |-> k, g |-> [i \in 1..n |-> pt(i)], s_g2 |-> pt(n + 1)]),
                  why |-> ""]

(* ------------------------------ bincode ------------------------------- *)

\* bincode::serialize(&MlParamsSerde { params, public_vals })
BincodeSerialize(raw) ==
  U64LE(Len(raw.params)) \o raw.params
    \o U64LE(Len(raw.public_vals)) \o raw.public_vals

\* bincode::deserialize::<MlParamsSerde>: trailing bytes are allowed
BincodeDeserialize(b) ==
  LET bad == [ok |-> FALSE, val |-> None]
  IN IF Len(b) < 8 THEN bad
     ELSE
       LET n1 == SmallLE(Take(b, 8))
           r1 == Drop(b, 8)
       IN IF n1 < 0 \/ Len(r1) < n1 + 8 THEN bad
          ELSE
            LET n2 == SmallLE(SubSeq(r1, n1 + 1, n1 + 8))
                r2 == Drop(r1, n1 + 8)
            IN IF n2 < 0 \/ Len(r2) < n2 THEN bad
               ELSE [ok |-> TRUE,
                     val |-> Some([params |-> Take(r1, n1),
                                   public_vals |-> Take(r2, n2)])]

(* ------------------------------ MlParams ------------------------------ *)

\* MlParams::new
MlParams(p, vals) == [params |-> p, public_vals |-> vals]

\* to_vec with the public values serialized as a sequence of byte vectors,
\* each with its own length prefix
to_vec_per_element(self) ==
  U64LE(Len(ParamsWrite(self.params))) \o ParamsWrite(self.params)
    \o U64LE(Len(self.public_vals))
    \o Flatten([i \in 1..Len(self.public_vals) |->
                  U64LE(FrBytes) \o Fr_to_bytes(self.public_vals[i])])

\* MlParams::to_vec: the parameters through Params::write, each public value
\* through Fr::to_bytes in order, the two sections through bincode
to_vec(self) ==
  BincodeSerialize(
    [params |-> ParamsWrite(self.params),
     public_vals |->
       Flatten([i \in 1..Len(self.public_vals) |-> Fr_to_bytes(self.public_vals[i])])])

\* the i-th (from 0) 32-byte chunk of the public-values section
Chunk(b, i) == SubSeq(b, i * FrBytes + 1, (i + 1) * FrBytes)

\* from_reader collecting the public values in reverse order
from_reader_reversed(bytes) ==
  LET raw == BincodeDeserialize(bytes)
  IN IF ~raw.ok
     THEN [kind |-> "err", why |-> "CliLogicError: deserialize params error", val |-> None]
     ELSE
       LET r == Unwrap(raw.val)
           p == ParamsRead(r.params)
       IN IF ~p.ok
          THEN [kind |-> "err", why |-> p.why, val |-> None]
          ELSE
            LET n == Len(r.public_vals) \div FrBytes
                fe(i) == Fr_from_bytes(Chunk(r.public_vals, i))
            IN IF \E i \in 0..(n - 1) : ~IsSome(fe(i))
               THEN [kind |-> "panic", why |-> "unwrap of Fr::from_bytes", val |-> None]
               ELSE [kind |-> "ok", why |-> "",
                     val |-> Some(MlParams(Unwrap(p.val),
                                           [i \in 1..n |-> Unwrap(fe(n - i))]))]

\* MlParams::from_reader: a value, an error returned to the caller, or a
\* panic (the unwrap of Fr::from_bytes)
from_reader(bytes) ==
  LET raw == BincodeDeserialize(bytes)
  IN IF ~raw.ok
     THEN [kind |-> "err", why |-> "CliLogicError: deserialize params error", val |-> None]
     ELSE
       LET r == Unwrap(raw.val)
           p == ParamsRead(r.params)
       IN IF ~p.ok
          THEN [kind |-> "err", why |-> p.why, val |-> None]
          ELSE
            LET n == Len(r.public_vals) \div FrBytes
                fe(i) == Fr_from_bytes(Chunk(r.public_vals, i))
            IN IF \E i \in 0..(n - 1) : ~IsSome(fe(i))
               THEN [kind |-> "panic", why |-> "unwrap of Fr::from_bytes", val |-> None]
               ELSE [kind |-> "ok", why |-> "",
                     val |-> Some(MlParams(Unwrap(p.val),
                                           [i \in 1..n |-> Unwrap(fe(i - 1))]))]

(* ---------------------------- the circuit ----------------------------- *)

\* The sample field elements public outputs are drawn from.
FrSamples == <<FrFromU64(5), FrFromU64(12), FrFromU64(0), FrMax>>
Sample(i) == FrSamples[(i % Len(FrSamples)) + 1]
FrInputs == {FrSamples[i] : i \in 1..Len(FrSamples)}

\* Model files.  The default model ("/data/model.msgpack", used when no
\* name is given) is an honest circuit of exponent 1; the named models are
\* the honest circuits of exponents 2..MaxK and three faulty ones: one
\* whose trace does not satisfy its constraints, one whose trace needs more
\* rows than its declared exponent k gives, one on which the proving
\* algorithm fails.
UnsatModel == MaxK + 1
RowsModel == MaxK + 2
ProveModel == MaxK + 3
ConfigNames == 2..(MaxK + 3)
\* Input files: the default input carries one output, input i carries the
\* outputs Sample(i+1) .. Sample(2i) or none (i = 0).
InputNames == {0} \cup 2..MaxOutputs

CliArgs == [config_fname : {None} \cup {Some(c) : c \in ConfigNames},
            inp_fname : {None} \cup {Some(i) : i \in InputNames}]

\* ModelCircuit::generate_from_file
generate_from_file(config, inp) ==
  [k |-> IF config <= MaxK THEN config ELSE 1,
   rows_k |-> IF config <= MaxK THEN config ELSE IF config = RowsModel THEN 2 ELSE 1,
   cs |-> config,
   fault |-> IF config = UnsatModel THEN "unsat"
             ELSE IF config = RowsModel THEN "rows"
             ELSE IF config = ProveModel THEN "prove"
             ELSE "none",
   outs |-> [j \in 1..inp |-> Sample(inp + j)]]

\* CliArgs::gen_circuit: the named files, or the default paths
gen_circuit(a) ==
  generate_from_file(IF IsSome(a.config_fname) THEN Unwrap(a.config_fname) ELSE 1,
                     IF IsSome(a.inp_fname) THEN Unwrap(a.inp_fname) ELSE 1)

\* get_public_values: the public values the last synthesis collected
get_public_values(c) == c.outs

(* ------------------------- halo2 at call sites ------------------------ *)

\* keygen_vk(&params, &circuit): not enough rows when the parameters are
\* smaller than the circuit's trace
keygen_vk(p, c) ==
  IF p.k < c.rows_k THEN [ok |-> FALSE, val |-> None, why |-> "NotEnoughRowsAvailable"]
  ELSE [ok |-> TRUE, val |-> Some([k |-> p.k, cs |-> c.cs]), why |-> ""]

\* keygen_pk(&params, vk, &circuit)
keygen_pk(p, v, c) ==
  IF p.k < c.rows_k THEN [ok |-> FALSE, val |-> None, why |-> "NotEnoughRowsAvailable"]
  ELSE [ok |-> TRUE, val |-> Some([vk |-> v]), why |-> ""]

\* MockProver::run(k, &circuit, vec![vec![]]): synthesises the circuit over
\* 2^k rows and returns the prover, or the synthesis error; the constraints
\* are checked by MockProver::verify, not by run
MockProver_run(k, c) == k >= c.rows_k

\* The transcript an honest prover writes for a satisfied circuit; the
\* polynomial-commitment argument is idealised: the transcript determines
\* the parameters, the key and the instance, and nothing else verifies.
Transcript(p, v, instances) ==
  <<p.k, v.cs>> \o PointToBytes(p.g[Len(p.g)]) \o PointToBytes(p.s_g2)
    \o <<Len(instances)>>
    \o Flatten([i \in 1..Len(instances) |-> Fr_to_bytes(instances[i])])
    \o <<1>>

\* create_proof(&params, &pk, &[circuit], &[&[&public_vals]], rng, &mut t)
\* followed by t.finalize(): an error, or the bytes written; a trace that
\* does not satisfy the constraints gives bytes that do not verify
create_proof(p, k, c, instances) ==
  IF c.fault = "prove" THEN [ok |-> FALSE, val |-> <<>>]
  ELSE LET t == Transcript(p, k.vk, instances)
       IN [ok |-> TRUE,
           val |-> IF c.fault = "unsat" THEN Take(t, Len(t) - 1) \o <<0>> ELSE t]

\* verify_proof(&params, &vk, strategy, &[&[&public_vals]], &mut t) over the
\* proof bytes: "ok", "eof" (the transcript ends before the verifier has
\* read what it needs) or "reject"; bytes after the last read are ignored
verify_proof(p, v, instances, bytes) ==
  LET t == Transcript(p, v, instances)
  IN IF Len(bytes) < Len(t)
     THEN (IF bytes = Take(t, Len(bytes)) THEN "eof" ELSE "reject")
     ELSE IF Take(bytes, Len(t)) = t THEN "ok" ELSE "reject"

(* ------------------------------- state -------------------------------- *)

VARIABLES
  pc,            \* position in the current run
  op,            \* "none", "prove", "verify" or "codec"
  args,          \* the run's CliArgs
  params_reader, \* Option of the bytes behind the reader handed to the run
  rng,           \* the randomness handed to a proving run
  proof_in,      \* the proof bytes handed to a verifying run
  circuit,       \* Option: let circuit
  params,        \* Option: let params
  vk,            \* Option: let vk
  pk,            \* Option: let pk
  public_vals,   \* let public_vals
  proof,         \* Option: the finalized transcript of a proving run
  result,        \* what the run returned, or how it ended
  steps,         \* the steps the current run has performed, in order
  decoded,       \* Option: the MlParams a verifying run decoded
  prior          \* Option: what the proving run before a verifying run returned

vars == <<pc, op, args, params_reader, rng, proof_in, circuit, params, vk, pk,
          public_vals, proof, result, steps, decoded, prior>>

NoArgs == [config_fname |-> None, inp_fname |-> None]
NoResult == [kind |-> "none", why |-> "", ok |-> FALSE, out |-> <<>>]
\* Ok(v) of a verifying run, Ok((proof, envelope)) of a proving run
OkBool(b) == [kind |-> "ok", why |-> "", ok |-> b, out |-> <<>>]
OkPair(p, e) == [kind |-> "ok", why |-> "", ok |-> FALSE, out |-> <<p, e>>]
\* Err(e) returned to the caller
Err(why) == [kind |-> "err", why |-> why, ok |-> FALSE, out |-> <<>>]
\* the run aborted: an unwrap or an assertion panicked
Panic(why) == [kind |-> "panic", why |-> why, ok |-> FALSE, out |-> <<>>]

\* the secrets a fresh setup may draw, and the secret of the stored setup
Seeds == {2, 5}
StoredSeed == 7

Locals0 ==
  /\ circuit = None /\ params = None /\ vk = None /\ pk = None
  /\ public_vals = <<>> /\ proof = None /\ steps = <<>> /\ decoded = None

Init ==
  /\ pc = "idle" /\ op = "none" /\ args = NoArgs /\ params_reader = None
  /\ rng = 0 /\ proof_in = <<>> /\ result = NoResult /\ prior = None
  /\ Locals0

\* the run ends with outcome r
End(r) == pc' = "done" /\ result' = r

(* ------------------------- generate_ml_proof -------------------------- *)

\* the parameter files a proving run may be handed: a stored setup of any
\* exponent, a stored setup cut short, or one whose last point is no group
\* element
ParamFiles ==
  {ParamsWrite(ParamsSetup(k, StoredSeed)) : k \in 1..MaxK}
    \cup {Take(ParamsWrite(ParamsSetup(1, StoredSeed)), 5),
          Take(ParamsWrite(ParamsSetup(1, StoredSeed)), 8) \o <<255, 255>>}

\* Operator::create_proof: the call of generate_ml_proof
StartProve ==
  /\ pc = "idle"
  /\ \E a \in CliArgs, r \in {None} \cup {Some(f) : f \in ParamFiles}, s \in Seeds :
       /\ args' = a /\ params_reader' = r /\ rng' = s
  /\ pc' = "p_circuit" /\ op' = "prove" /\ proof_in' = <<>>
  /\ circuit' = None /\ params' = None /\ vk' = None /\ pk' = None
  /\ public_vals' = <<>> /\ proof' = None /\ steps' = <<>>
  /\ result' = NoResult /\ prior' = None /\ decoded' = None

\* let circuit = args.gen_circuit(); let k = circuit.k
P_GenCircuit ==
  /\ pc = "p_circuit"
  /\ circuit' = Some(gen_circuit(args))
  /\ pc' = "p_params"
  /\ UNCHANGED <<op, args, params_reader, rng, proof_in, params, vk, pk,
                 public_vals, proof, result, steps, decoded, prior>>

\* the reader ignored: a fresh setup is made in every run
P_Params_always_setup ==
  /\ pc = "p_params"
  /\ params' = Some(ParamsSetup(Unwrap(circuit).k, rng))
  /\ steps' = Append(steps, "setup")
  /\ pc' = "p_vk"
  /\ UNCHANGED <<op, args, params_reader, rng, proof_in, circuit, vk, pk,
                 public_vals, proof, result, decoded, prior>>

\* the fresh setup made for a fixed exponent instead of the circuit's
P_Params_fixed_k ==
  /\ pc = "p_params"
  /\ IF IsSome(params_reader)
     THEN LET r == ParamsRead(Unwrap(params_reader))
          IN IF r.ok
             THEN /\ params' = r.val /\ steps' = Append(steps, "read")
                  /\ pc' = "p_vk" /\ UNCHANGED result
             ELSE /\ End(Err(r.why)) /\ UNCHANGED <<params, steps>>
     ELSE /\ params' = Some(ParamsSetup(MaxK, rng))
          /\ steps' = Append(steps, "setup")
          /\ pc' = "p_vk" /\ UNCHANGED result
  /\ UNCHANGED <<op, args, params_reader, rng, proof_in, circuit, vk, pk,
                 public_vals, proof, decoded, prior>>

\* the read error unwrapped instead of returned with ?
P_Params_unwrap ==
  /\ pc = "p_params"
  /\ IF IsSome(params_reader)
     THEN LET r == ParamsRead(Unwrap(params_reader))
          IN IF r.ok
             THEN /\ params' = r.val /\ steps' = Append(steps, "read")
                  /\ pc' = "p_vk" /\ UNCHANGED result
             ELSE /\ End(Panic(r.why)) /\ UNCHANGED <<params, steps>>
     ELSE /\ params' = Some(ParamsSetup(Unwrap(circuit).k, rng))
          /\ steps' = Append(steps, "setup")
          /\ pc' = "p_vk" /\ UNCHANGED result
  /\ UNCHANGED <<op, args, params_reader, rng, proof_in, circuit, vk, pk,
                 public_vals, proof, decoded, prior>>

\* params = Params::read(&mut params_r)?  or  ParamsKZG::setup(k, rng)
P_Params ==
  /\ pc = "p_params"
  /\ IF IsSome(params_reader)
     THEN LET r == ParamsRead(Unwrap(params_reader))
          IN IF r.ok
             THEN /\ params' = r.val /\ steps' = Append(steps, "read")
                  /\ pc' = "p_vk" /\ UNCHANGED result
             ELSE /\ End(Err(r.why)) /\ UNCHANGED <<params, steps>>
     ELSE /\ params' = Some(ParamsSetup(Unwrap(circuit).k, rng))
          /\ steps' = Append(steps, "setup")
          /\ pc' = "p_vk" /\ UNCHANGED result
  /\ UNCHANGED <<op, args, params_reader, rng, proof_in, circuit, vk, pk,
                 public_vals, proof, decoded, prior>>

\* let vk = keygen_vk(&params, &circuit).map_err(..)?
P_KeygenVk ==
  /\ pc = "p_vk"
  /\ LET r == keygen_vk(Unwrap(params), Unwrap(circuit))
     IN /\ steps' = Append(steps, "keygen_vk")
        /\ IF r.ok
           THEN vk' = r.val /\ pc' = "p_pk" /\ UNCHANGED result
           ELSE End(Err("CliLogicError: keygen vk failed: " \o r.why)) /\ UNCHANGED vk
  /\ UNCHANGED <<op, args, params_reader, rng, proof_in, circuit, params, pk,
                 public_vals, proof, decoded, prior>>

\* let pk = keygen_pk(&params, vk, &circuit).map_err(..)?
P_KeygenPk ==
  /\ pc = "p_pk"
  /\ LET r == keygen_pk(Unwrap(params), Unwrap(vk), Unwrap(circuit))
     IN /\ steps' = Append(steps, "keygen_pk")
        /\ IF r.ok
           THEN pk' = r.val /\ pc' = "p_mock" /\ UNCHANGED result
           ELSE End(Err("CliLogicError: keygen pk failed: " \o r.why)) /\ UNCHANGED pk
  /\ UNCHANGED <<op, args, params_reader, rng, proof_in, circuit, params, vk,
                 public_vals, proof, decoded, prior>>

\* the check step with its result ignored instead of unwrapped
P_MockProver_ignored ==
  /\ pc = "p_mock"
  /\ steps' = Append(steps, "mock_run")
  /\ public_vals' = get_public_values(Unwrap(circuit))
  /\ pc' = "p_prove"
  /\ UNCHANGED <<op, args, params_reader, rng, proof_in, circuit, params, vk, pk,
                 proof, result, decoded, prior>>

\* let _prover = MockProver::run(k, &circuit, vec![vec![]]).unwrap();
\* let public_vals = get_public_values()
P_MockProver ==
  /\ pc = "p_mock"
  /\ steps' = Append(steps, "mock_run")
  /\ IF MockProver_run(Unwrap(circuit).k, Unwrap(circuit))
     THEN /\ public_vals' = get_public_values(Unwrap(circuit))
          /\ pc' = "p_prove" /\ UNCHANGED result
     ELSE End(Panic("unwrap of MockProver::run")) /\ UNCHANGED public_vals
  /\ UNCHANGED <<op, args, params_reader, rng, proof_in, circuit, params, vk, pk,
                 proof, decoded, prior>>

\* Blake2bWrite::init; create_proof(..).unwrap(); transcript.finalize()
P_CreateProof ==
  /\ pc = "p_prove"
  /\ LET r == create_proof(Unwrap(params), Unwrap(pk), Unwrap(circuit), public_vals)
     IN /\ steps' = steps \o <<"transcript_init", "create_proof">>
        /\ IF r.ok
           THEN proof' = Some(r.val) /\ pc' = "p_check" /\ UNCHANGED result
           ELSE End(Panic("unwrap of create_proof")) /\ UNCHANGED proof
  /\ UNCHANGED <<op, args, params_reader, rng, proof_in, circuit, params, vk, pk,
                 public_vals, decoded, prior>>

\* verify_kzg(&params, &pk.get_vk(), strategy, &public_vals, transcript_read):
\* returns when the proof verifies and aborts the run when it does not
verify_kzg(p, v, instances, bytes) == verify_proof(p, v, instances, bytes) = "ok"

P_SelfCheck ==
  /\ pc = "p_check"
  /\ steps' = Append(steps, "self_check")
  /\ IF verify_kzg(Unwrap(params), Unwrap(pk).vk, public_vals, Unwrap(proof))
     THEN pc' = "p_return" /\ UNCHANGED result
     ELSE End(Panic("verify_kzg: proof did not verify"))
  /\ UNCHANGED <<op, args, params_reader, rng, proof_in, circuit, params, vk, pk,
                 public_vals, proof, decoded, prior>>

\* the envelope built from a setup made anew instead of the parameters used
P_Return_fresh_params ==
  /\ pc = "p_return"
  /\ End(OkPair(Unwrap(proof),
                to_vec(MlParams(ParamsSetup(Unwrap(circuit).k, rng), public_vals))))
  /\ UNCHANGED <<op, args, params_reader, rng, proof_in, circuit, params, vk, pk,
                 public_vals, proof, steps, decoded, prior>>

\* the return reached without waiting for the self-check
P_Return_unchecked ==
  /\ pc \in {"p_check", "p_return"}
  /\ End(OkPair(Unwrap(proof), to_vec(MlParams(Unwrap(params), public_vals))))
  /\ UNCHANGED <<op, args, params_reader, rng, proof_in, circuit, params, vk, pk,
                 public_vals, proof, steps, decoded, prior>>

\* Ok((proof, MlParams::new(params, public_vals).to_vec()?))
P_Return ==
  /\ pc = "p_return"
  /\ End(OkPair(Unwrap(proof), to_vec(MlParams(Unwrap(params), public_vals))))
  /\ UNCHANGED <<op, args, params_reader, rng, proof_in, circuit, params, vk, pk,
                 public_vals, proof, steps, decoded, prior>>

(* -------------------------- verify_ml_proof --------------------------- *)

\* the bytes of the modulus itself: a 32-byte chunk that is no field element
BadChunk == Fr_to_bytes(FrModulus)

\* The envelopes a verifying run may be handed after a proving run returned
\* envelope e: e itself; e with a public-values section whose length is not
\* a multiple of 32; e with a chunk that is no field element; e cut short;
\* e with the parameters of another setup.
EnvelopeFiles(e) ==
  LET raw == Unwrap(BincodeDeserialize(e).val)
      pv == raw.public_vals
  IN {e,
      BincodeSerialize([raw EXCEPT !.public_vals =
                          IF Len(pv) > 0 THEN Take(pv, Len(pv) - 1) ELSE <<1, 2, 3>>]),
      BincodeSerialize([raw EXCEPT !.public_vals = pv \o BadChunk]),
      Take(e, Len(e) - 1)}
     \cup {BincodeSerialize([raw EXCEPT !.params = ParamsWrite(ParamsSetup(k, StoredSeed))])
             : k \in 1..MaxK}

\* The proofs a verifying run may be handed after a proving run returned
\* proof p: p itself, no bytes, p cut short, p with its first byte changed.
ProofFiles(p) ==
  {p, <<>>, Take(p, Len(p) - 1), [p EXCEPT ![1] = (@ + 1) % 256]}

\* p with one byte flipped, for every position
FlippedProofs(p) == {[p EXCEPT ![i] = 255 - @] : i \in 1..Len(p)}

\* section pv with its j-th (from 0) chunk replaced by the encoding of x
WithChunk(pv, j, x) ==
  Take(pv, j * FrBytes) \o Fr_to_bytes(x) \o Drop(pv, (j + 1) * FrBytes)

\* e with one public output altered to another field element, for every
\* position and every sample value
AlteredEnvelopes(e) ==
  LET raw == Unwrap(BincodeDeserialize(e).val)
      pv == raw.public_vals
  IN {BincodeSerialize([raw EXCEPT !.public_vals = WithChunk(pv, j, x)]) :
        j \in 0..(Len(pv) \div FrBytes - 1), x \in FrInputs} \ {e}

\* e with a parameter section cut short, and with a parameter section whose
\* last point is no group element
CorruptEnvelopes(e) ==
  LET raw == Unwrap(BincodeDeserialize(e).val)
      pb == raw.params
  IN {BincodeSerialize([raw EXCEPT !.params = Take(pb, Len(pb) - 1)]),
      BincodeSerialize([raw EXCEPT !.params = Take(pb, Len(pb) - 2) \o <<255, 255>>])}

\* What a verifying run may be handed after a proving run on arguments a0
\* returned proof p0 and envelope e0: any arguments with any of the
\* envelopes and proofs above, or a0 with one of p0 and e0 tampered with.
VerifyInputs(a0, p0, e0) ==
  (CliArgs \X ({None} \cup {Some(e) : e \in EnvelopeFiles(e0)}) \X ProofFiles(p0))
    \cup {<<a0, Some(e0), q>> : q \in FlippedProofs(p0)}
    \cup {<<a0, Some(e), p0>> : e \in AlteredEnvelopes(e0) \cup CorruptEnvelopes(e0)}

\* Operator::verify_proof: the reader is required, then verify_ml_proof
StartVerify ==
  /\ pc = "done" /\ op = "prove" /\ result.kind = "ok"
  /\ \E in \in VerifyInputs(args, result.out[1], result.out[2]) :
       /\ args' = in[1] /\ params_reader' = in[2] /\ proof_in' = in[3]
       /\ IF IsSome(in[2])
          THEN pc' = "v_circuit" /\ result' = NoResult
          ELSE End(Err("CliLogicError: params reader is none"))
  /\ prior' = Some([args |-> args, fresh |-> ~IsSome(params_reader),
                     proof |-> result.out[1], envelope |-> result.out[2]])
  /\ op' = "verify" /\ rng' = 0
  /\ circuit' = None /\ params' = None /\ vk' = None /\ pk' = None
  /\ public_vals' = <<>> /\ proof' = None /\ steps' = <<>> /\ decoded' = None

\* let circuit = args.gen_circuit()
V_GenCircuit ==
  /\ pc = "v_circuit"
  /\ circuit' = Some(gen_circuit(args))
  /\ pc' = "v_params"
  /\ UNCHANGED <<op, args, params_reader, rng, proof_in, params, vk, pk,
                 public_vals, proof, result, steps, decoded, prior>>

\* let params = MlParams::from_reader(params_reader)?
V_FromReader ==
  /\ pc = "v_params"
  /\ LET r == from_reader(Unwrap(params_reader))
     IN /\ steps' = Append(steps, "from_reader")
        /\ IF r.kind = "ok"
           THEN decoded' = r.val /\ pc' = "v_vk" /\ UNCHANGED result
           ELSE /\ End(IF r.kind = "err" THEN Err(r.why) ELSE Panic(r.why))
                /\ UNCHANGED decoded
  /\ UNCHANGED <<op, args, params_reader, rng, proof_in, circuit, params, vk, pk,
                 public_vals, proof, prior>>

\* key derivation whose failure is reported as the result false
V_KeygenVk_false ==
  /\ pc = "v_vk"
  /\ LET r == keygen_vk(Unwrap(decoded).params, Unwrap(circuit))
     IN /\ steps' = Append(steps, "keygen_vk")
        /\ IF r.ok
           THEN vk' = r.val /\ pc' = "v_verify" /\ UNCHANGED result
           ELSE End(OkBool(FALSE)) /\ UNCHANGED vk
  /\ UNCHANGED <<op, args, params_reader, rng, proof_in, circuit, params, pk,
                 public_vals, proof, decoded, prior>>

\* let vk = keygen_vk(&params.params, &circuit).map_err(..)?
V_KeygenVk ==
  /\ pc = "v_vk"
  /\ LET r == keygen_vk(Unwrap(decoded).params, Unwrap(circuit))
     IN /\ steps' = Append(steps, "keygen_vk")
        /\ IF r.ok
           THEN vk' = r.val /\ pc' = "v_verify" /\ UNCHANGED result
           ELSE End(Err("CliLogicError: keygen vk failed: " \o r.why)) /\ UNCHANGED vk
  /\ UNCHANGED <<op, args, params_reader, rng, proof_in, circuit, params, pk,
                 public_vals, proof, decoded, prior>>

\* the verification error propagated with ? instead of folded by is_ok
VerifyReturn_propagate(outcome) ==
  IF outcome = "ok" THEN OkBool(TRUE) ELSE Err(outcome)

\* let ok = verify_proof(..).is_ok(); Ok(ok)
VerifyReturn(outcome) == OkBool(outcome = "ok")

\* verification against the public values of the regenerated circuit
V_Verify_circuit_outputs ==
  /\ pc = "v_verify"
  /\ LET outcome == verify_proof(Unwrap(decoded).params, Unwrap(vk),
                                 get_public_values(Unwrap(circuit)), proof_in)
     IN /\ steps' = steps \o <<"verify_proof", outcome>>
        /\ End(VerifyReturn(outcome))
  /\ UNCHANGED <<op, args, params_reader, rng, proof_in, circuit, params, vk, pk,
                 public_vals, proof, decoded, prior>>

\* the envelope's outputs compared with the regenerated circuit's before the
\* verification algorithm is run
V_Verify_recheck ==
  /\ pc = "v_verify"
  /\ LET outcome == IF Unwrap(decoded).public_vals = get_public_values(Unwrap(circuit))
                    THEN verify_proof(Unwrap(decoded).params, Unwrap(vk),
                                      Unwrap(decoded).public_vals, proof_in)
                    ELSE "reject"
     IN /\ steps' = steps \o <<"verify_proof", outcome>>
        /\ End(VerifyReturn(outcome))
  /\ UNCHANGED <<op, args, params_reader, rng, proof_in, circuit, params, vk, pk,
                 public_vals, proof, decoded, prior>>

\* Blake2bRead::init(&proof[..]); verify_proof over params.params, vk and
\* params.public_vals; the outcome of the algorithm is logged in steps
V_Verify ==
  /\ pc = "v_verify"
  /\ LET outcome == verify_proof(Unwrap(decoded).params, Unwrap(vk),
                                 Unwrap(decoded).public_vals, proof_in)
     IN /\ steps' = steps \o <<"verify_proof", outcome>>
        /\ End(VerifyReturn(outcome))
  /\ UNCHANGED <<op, args, params_reader, rng, proof_in, circuit, params, vk, pk,
                 public_vals, proof, decoded, prior>>

\* main: the process ends, with the error or the result reported
Finish ==
  /\ pc = "done"
  /\ pc' = "idle" /\ op' = "none" /\ args' = NoArgs /\ params_reader' = None
  /\ rng' = 0 /\ proof_in' = <<>> /\ result' = NoResult /\ prior' = None
  /\ circuit' = None /\ params' = None /\ vk' = None /\ pk' = None
  /\ public_vals' = <<>> /\ proof' = None /\ steps' = <<>> /\ decoded' = None

Next ==
  \/ Finish
  \/ StartProve \/ P_GenCircuit \/ P_Params \/ P_KeygenVk \/ P_KeygenPk
  \/ P_MockProver \/ P_CreateProof \/ P_SelfCheck \/ P_Return
  \/ StartVerify \/ V_GenCircuit \/ V_FromReader \/ V_KeygenVk \/ V_Verify

Spec == Init /\ [][Next]_vars

(* ---------------------- the envelope codec alone ----------------------- *)

RECURSIVE SeqsUpTo(_, _)
\* the sequences over S of length at most n
SeqsUpTo(S, n) ==
  IF n = 0 THEN {<<>>}
  ELSE LET shorter == SeqsUpTo(S, n - 1)
       IN shorter \cup {Append(q, x) : q \in shorter, x \in S}

\* an MlParams of any setup and any sequence of field elements
InitCodec ==
  /\ pc = "c_new" /\ op = "codec" /\ args = NoArgs /\ params_reader = None
  /\ rng = 0 /\ proof_in = <<>> /\ result = NoResult /\ prior = None
  /\ circuit = None /\ vk = None /\ pk = None /\ proof = None /\ steps = <<>>
  /\ decoded = None
  /\ params \in {Some(ParamsSetup(k, s)) : k \in 0..MaxK, s \in Seeds}
  /\ public_vals \in SeqsUpTo(FrInputs, MaxOutputs)

\* MlParams::new(params, public_vals).to_vec()
C_Encode ==
  /\ pc = "c_new"
  /\ params_reader' = Some(to_vec(MlParams(Unwrap(params), public_vals)))
  /\ pc' = "c_encoded"
  /\ UNCHANGED <<op, args, rng, proof_in, circuit, params, vk, pk, public_vals,
                 proof, result, steps, decoded, prior>>

\* MlParams::from_reader over the encoded bytes
C_Decode ==
  /\ pc = "c_encoded"
  /\ LET r == from_reader(Unwrap(params_reader))
     IN /\ decoded' = r.val
        /\ result' = IF r.kind = "ok" THEN OkBool(TRUE)
                     ELSE IF r.kind = "err" THEN Err(r.why) ELSE Panic(r.why)
  /\ pc' = "c_decoded"
  /\ UNCHANGED <<op, args, params_reader, rng, proof_in, circuit, params, vk, pk,
                 public_vals, proof, steps, prior>>

NextCodec == C_Encode \/ C_Decode

SpecCodec == InitCodec /\ [][NextCodec]_vars

(* ------------------------------- claims ------------------------------- *)

\* the current run has performed step s
Did(s) == \E i \in 1..Len(steps) : steps[i] = s
\* the current run performed step s before its i-th step
DidBefore(s, i) == \E j \in 1..(i - 1) : steps[j] = s

\* C1: decoding the bytes to_vec produced for (params, public_vals) gives
\* back the same parameters and the same public values, in the same number
\* and order.
C1_RoundTrip ==
  pc = "c_decoded" =>
    /\ result.kind = "ok"
    /\ IsSome(decoded)
    /\ Unwrap(decoded).params = Unwrap(params)
    /\ Len(Unwrap(decoded).public_vals) = Len(public_vals)
    /\ \A i \in 1..Len(public_vals) : Unwrap(decoded).public_vals[i] = public_vals[i]

C1_Witness ==
  /\ pc = "c_decoded" /\ Len(public_vals) = MaxOutputs
  /\ public_vals[1] = FrMax /\ public_vals[MaxOutputs] = FrFromU64(5)
  /\ Unwrap(params).k = MaxK

\* the sections of the envelope handed to the verifying run
RawEnvelope == BincodeDeserialize(Unwrap(params_reader))
\* the verifying run has been through from_reader on a record whose
\* sections and parameters are well formed
DecodedSections ==
  /\ op = "verify" /\ Did("from_reader")
  /\ RawEnvelope.ok /\ ParamsRead(Unwrap(RawEnvelope.val).params).ok

\* C2: an envelope whose public-values section has a length that is not a
\* multiple of 32 makes decoding fail with an error returned to the caller:
\* nothing is decoded from it and the run ends with that error.
C2_MalformedLengthRejected ==
  (DecodedSections /\ Len(Unwrap(RawEnvelope.val).public_vals) % FrBytes # 0) =>
    /\ decoded = None
    /\ pc = "done" /\ result.kind = "err"

\* some whole chunk of the public-values section is no field element
HasInvalidChunk(pv) ==
  \E i \in 0..(Len(pv) \div FrBytes - 1) : ~IsSome(Fr_from_bytes(Chunk(pv, i)))

\* C3: an envelope with a 32-byte chunk that is no field element makes
\* decoding fail with an error value returned to the caller, and nothing is
\* decoded.
C3_InvalidFieldElementRejected ==
  (DecodedSections /\ HasInvalidChunk(Unwrap(RawEnvelope.val).public_vals)) =>
    /\ decoded = None
    /\ pc = "done" /\ result.kind = "err"

\* the verification algorithm accepts the run's proof against the decoded
\* parameters and public values and the derived key
Accepts ==
  verify_proof(Unwrap(decoded).params, Unwrap(vk), Unwrap(decoded).public_vals,
               proof_in) = "ok"

\* C4: a verifying run that decoded its envelope and derived its key returns
\* Ok(true) when the verification algorithm accepts and Ok(false), never an
\* error, when it rejects.
C4_VerificationFailureIsValue ==
  (op = "verify" /\ pc = "done" /\ IsSome(decoded) /\ IsSome(vk)) =>
    /\ result.kind = "ok"
    /\ result.ok = Accepts

C4_Witness ==
  /\ op = "verify" /\ pc = "done" /\ IsSome(decoded) /\ IsSome(vk)
  /\ Len(proof_in) = Len(Unwrap(prior).proof) /\ proof_in # Unwrap(prior).proof
  /\ result = OkBool(FALSE)

\* C5: a verifying run handed the arguments and the envelope of the proving
\* run and a proof of the wrong length (cut short, or empty) ends in an
\* error, not with a boolean result.
C5_WrongLengthProofIsError ==
  (op = "verify" /\ pc = "done" /\ IsSome(prior)
     /\ args = Unwrap(prior).args /\ params_reader = Some(Unwrap(prior).envelope)
     /\ Len(proof_in) < Len(Unwrap(prior).proof)) =>
    result.kind # "ok"

\* C6: a proving run returns a pair only after the proving algorithm
\* completed and the self-check accepted the returned proof against the
\* run's parameters, key and public values; when the proving algorithm
\* fails or the self-check rejects, the run aborts and returns nothing.
C6_NoPartialSuccess ==
  op = "prove" =>
    /\ result.out # <<>> => result.kind = "ok"
    /\ result.kind = "ok" =>
         /\ Did("create_proof") /\ steps[Len(steps)] = "self_check"
         /\ IsSome(proof) /\ result.out[1] = Unwrap(proof)
         /\ create_proof(Unwrap(params), Unwrap(pk), Unwrap(circuit), public_vals).ok
         /\ verify_proof(Unwrap(params), Unwrap(pk).vk, public_vals, Unwrap(proof)) = "ok"
    /\ (pc = "done" /\ Did("create_proof")
          /\ (~IsSome(proof) \/
              verify_proof(Unwrap(params), Unwrap(pk).vk, public_vals, Unwrap(proof)) # "ok"))
         => result.kind = "panic"

C6_Witness ==
  /\ op = "prove" /\ pc = "done" /\ result.kind = "ok"
  /\ Len(public_vals) = MaxOutputs /\ Len(result.out[1]) > 0

\* C7: a proving run on a circuit whose trace does not satisfy its
\* constraints never reaches transcript initialisation or the proving
\* algorithm, and returns no proof.
C7_PreflightGuard ==
  (op = "prove" /\ IsSome(circuit) /\ Unwrap(circuit).fault = "unsat") =>
    /\ ~Did("transcript_init") /\ ~Did("create_proof")
    /\ result.kind # "ok"

CryptoSteps == {"setup", "keygen_vk", "keygen_pk", "create_proof"}
ProofSteps == {"transcript_init", "create_proof", "self_check"}

\* C8 as stated: in a proving run the circuit check comes before any
\* cryptographic work (parameter setup, key derivation, proof construction).
C8_CheckBeforeCryptoWork ==
  op = "prove" =>
    \A i \in 1..Len(steps) : steps[i] \in CryptoSteps => DidBefore("mock_run", i)

\* C8 amended: in a proving run the circuit check step comes after the
\* parameters are obtained and both keys derived, and before transcript
\* initialisation, proof construction and the self-check; a run whose check
\* step fails aborts there and constructs no proof.
C8_CheckBeforeProofConstruction ==
  op = "prove" =>
    /\ \A i \in 1..Len(steps) :
         /\ steps[i] \in ProofSteps => DidBefore("mock_run", i)
         /\ steps[i] = "mock_run" =>
              /\ DidBefore("setup", i) \/ DidBefore("read", i)
              /\ DidBefore("keygen_vk", i) /\ DidBefore("keygen_pk", i)
    /\ (Did("mock_run") /\ ~MockProver_run(Unwrap(circuit).k, Unwrap(circuit))) =>
         /\ pc = "done" /\ result.kind = "panic"
         /\ \A i \in 1..Len(steps) : steps[i] \notin ProofSteps

C8_Witness ==
  /\ op = "prove" /\ pc = "done" /\ Did("keygen_pk") /\ Did("mock_run")
  /\ ~MockProver_run(Unwrap(circuit).k, Unwrap(circuit))
  /\ result = Panic("unwrap of MockProver::run")

KeygenVkError == Err("CliLogicError: keygen vk failed: NotEnoughRowsAvailable")

\* C9: when the parameters in use are sized for a smaller exponent than the
\* circuit's, the run fails at verifying-key derivation with a keygen error
\* that carries the cause; a verifying run returns no boolean and never
\* runs the verification algorithm, a proving run with loaded parameters
\* never constructs a proof.
C9_WrongSizeParameters ==
  /\ (op = "verify" /\ IsSome(decoded) /\ IsSome(circuit)
        /\ Unwrap(decoded).params.k < Unwrap(circuit).k) =>
       /\ pc \in {"v_vk", "done"} /\ vk = None /\ ~Did("verify_proof")
       /\ pc = "done" => result = KeygenVkError
  /\ (op = "prove" /\ IsSome(params) /\ Unwrap(params).k < Unwrap(circuit).k) =>
       /\ pc \in {"p_vk", "done"} /\ vk = None /\ pk = None /\ ~Did("create_proof")
       /\ pc = "done" => result = KeygenVkError

C9_Witness ==
  /\ op = "verify" /\ pc = "done" /\ IsSome(decoded) /\ IsSome(circuit)
  /\ Unwrap(decoded).params.k < Unwrap(circuit).k
  /\ Did("keygen_vk")

\* the verifying run follows a proving run on an honest circuit with fresh
\* parameters and is handed the same arguments and what that run returned
HonestPair ==
  /\ op = "verify" /\ IsSome(prior)
  /\ Unwrap(prior).fresh /\ gen_circuit(Unwrap(prior).args).fault = "none"
  /\ args = Unwrap(prior).args
  /\ proof_in = Unwrap(prior).proof
  /\ params_reader = Some(Unwrap(prior).envelope)

\* C10: a proving run on an honest circuit with freshly generated
\* parameters, followed by a verifying run with the same arguments, the
\* returned proof and the returned envelope, ends with the verifier
\* returning true.
C10_Completeness ==
  (HonestPair /\ pc = "done") => result = OkBool(TRUE)

C10_Witness ==
  /\ HonestPair /\ pc = "done" /\ Did("verify_proof")
  /\ Len(Unwrap(decoded).public_vals) = MaxOutputs
  /\ Unwrap(circuit).k = MaxK

\* sequences a and b have the same length and differ at exactly one index
DifferAtOne(a, b) ==
  /\ Len(a) = Len(b)
  /\ \E i \in 1..Len(a) : a[i] # b[i] /\ \A j \in 1..Len(a) : j # i => a[j] = b[j]

\* the run's proof is the returned proof with a single byte changed
TamperedProof ==
  /\ params_reader = Some(Unwrap(prior).envelope)
  /\ DifferAtOne(proof_in, Unwrap(prior).proof)

\* the run's envelope is the returned envelope with a single public output
\* altered to another field element
AlteredOutput ==
  /\ proof_in = Unwrap(prior).proof
  /\ IsSome(params_reader) /\ RawEnvelope.ok
  /\ LET mine == Unwrap(RawEnvelope.val)
         theirs == Unwrap(BincodeDeserialize(Unwrap(prior).envelope).val)
         n == Len(theirs.public_vals) \div FrBytes
     IN /\ mine.params = theirs.params
        /\ Len(mine.public_vals) = Len(theirs.public_vals)
        /\ ~HasInvalidChunk(mine.public_vals)
        /\ \E j \in 0..(n - 1) :
             /\ Chunk(mine.public_vals, j) # Chunk(theirs.public_vals, j)
             /\ \A i \in 0..(n - 1) :
                  i # j => Chunk(mine.public_vals, i) = Chunk(theirs.public_vals, i)

\* C11: after a proving run returned a proof and an envelope, a verifying
\* run with the same arguments on the proof with any single byte flipped, or
\* on the envelope with any one public output altered to another field
\* element, ends with the result false: no error, no abort.
C11_TamperingYieldsFalse ==
  (op = "verify" /\ pc = "done" /\ IsSome(prior) /\ args = Unwrap(prior).args
     /\ (TamperedProof \/ AlteredOutput)) =>
    result = OkBool(FALSE)

C11_Witness ==
  /\ op = "verify" /\ pc = "done" /\ IsSome(prior) /\ args = Unwrap(prior).args
  /\ AlteredOutput /\ Did("verify_proof")
  /\ Len(Unwrap(decoded).public_vals) = MaxOutputs
  /\ Unwrap(decoded).public_vals[MaxOutputs] = FrMax

\* the envelope of the verifying run fails length-delimited
\* deserialization, or its parameter section fails Params::read
CorruptEnvelope ==
  \/ ~RawEnvelope.ok
  \/ ~ParamsRead(Unwrap(RawEnvelope.val).params).ok

\* C12: a verifying run whose envelope fails deserialization or whose
\* parameter section fails to read, and a proving run whose parameter file
\* fails to read, end with an error returned to the caller, never with an
\* abort, and with nothing decoded or loaded.
C12_CorruptBlobsAreErrors ==
  /\ (op = "verify" /\ Did("from_reader") /\ CorruptEnvelope) =>
       /\ pc = "done" /\ result.kind = "err"
       /\ decoded = None /\ vk = None
  /\ (op = "prove" /\ pc \notin {"p_circuit", "p_params"}
        /\ IsSome(params_reader) /\ ~ParamsRead(Unwrap(params_reader)).ok) =>
       /\ pc = "done" /\ result.kind = "err"
       /\ params = None /\ steps = <<>>

C12_Witness ==
  /\ op = "verify" /\ pc = "done" /\ Did("from_reader")
  /\ RawEnvelope.ok /\ ~ParamsRead(Unwrap(RawEnvelope.val).params).ok
  /\ result = Err("io: invalid point encoding")

\* the bytes bincode adds to the two sections of MlParamsSerde: one u64
\* length prefix for each Vec<u8>
EnvelopeOverhead == 16

\* C13: the encoded envelope is as long as the written parameters plus 32
\* bytes for each public output plus a fixed overhead that depends on
\* neither.
C13_EnvelopeSize ==
  pc \in {"c_encoded", "c_decoded"} =>
    Len(Unwrap(params_reader)) =
      Len(ParamsWrite(Unwrap(params))) + FrBytes * Len(public_vals) + EnvelopeOverhead

C13_Witness ==
  /\ pc = "c_encoded" /\ Len(public_vals) = MaxOutputs /\ Unwrap(params).k = MaxK
  /\ Len(Unwrap(params_reader)) > FrBytes * MaxOutputs + EnvelopeOverhead

\* what decoding the envelope returned by the proving run gives
ReturnedEnvelope == from_reader(result.out[2])

\* C14: when a proving run returns, the envelope holds the parameters the
\* run used and exactly the public values, in order, that were handed to the
\* proving algorithm and to the self-check for the returned proof.
C14_EnvelopeMatchesRun ==
  (op = "prove" /\ result.kind = "ok") =>
    /\ ReturnedEnvelope.kind = "ok"
    /\ LET env == Unwrap(ReturnedEnvelope.val)
       IN /\ env.params = Unwrap(params)
          /\ env.public_vals = public_vals
          /\ result.out[1] =
               create_proof(env.params, Unwrap(pk), Unwrap(circuit), env.public_vals).val

C14_Witness ==
  /\ op = "prove" /\ pc = "done" /\ result.kind = "ok"
  /\ IsSome(params_reader) /\ Did("read") /\ Did("self_check")
  /\ Len(public_vals) = MaxOutputs
  /\ Unwrap(ReturnedEnvelope.val).public_vals[1] = public_vals[1]

\* C15 as stated: in a proving run that reaches key derivation the
\* parameters in use have the circuit's exponent, fresh or loaded.
C15_ParamsSizedToCircuit ==
  (op = "prove" /\ IsSome(params)) => Unwrap(params).k = Unwrap(circuit).k

\* C15 amended: in a proving run that reaches key derivation, freshly
\* generated parameters have the circuit's exponent; loaded parameters have
\* the exponent of the supplied file, whatever the circuit's is; and the
\* keys are derived only when the exponent is at least the circuit's.
C15_ParamsSizeFreshOrLoaded ==
  (op = "prove" /\ IsSome(params)) =>
    /\ ~IsSome(params_reader) => Unwrap(params).k = Unwrap(circuit).k
    /\ IsSome(params_reader) =>
         Unwrap(params).k = SmallLE(Take(Unwrap(params_reader), 4))
    /\ IsSome(vk) => Unwrap(params).k >= Unwrap(circuit).k

C15_Witness ==
  /\ op = "prove" /\ pc = "done" /\ result.kind = "ok"
  /\ IsSome(params_reader) /\ Unwrap(params).k > Unwrap(circuit).k

\* C16: in a verifying run that reaches the verification algorithm, the
\* run never collects the regenerated circuit's outputs, and the result is
\* the algorithm's outcome on the outputs decoded from the envelope under
\* the key derived from the circuit, whatever outputs that circuit carries.
C16_VerifierTrustsEnvelope ==
  (op = "verify" /\ pc = "done" /\ Did("verify_proof")) =>
    /\ public_vals = <<>>
    /\ \A o \in SeqsUpTo(FrInputs, MaxOutputs) :
         LET c == [Unwrap(circuit) EXCEPT !.outs = o]
             key == keygen_vk(Unwrap(decoded).params, c)
         IN /\ key.ok
            /\ result = VerifyReturn(verify_proof(Unwrap(decoded).params,
                                                  Unwrap(key.val),
                                                  Unwrap(decoded).public_vals,
                                                  proof_in))

C16_Witness ==
  /\ op = "verify" /\ pc = "done" /\ Did("verify_proof")
  /\ get_public_values(Unwrap(circuit)) # Unwrap(decoded).public_vals
  /\ result = OkBool(TRUE)

\* C17: a proving run handed a parameter reader makes no fresh setup and
\* works with the parameters read from it, unchanged: the key has their
\* size, the returned proof is made with them and the returned envelope
\* stores them.  A run without a reader works with a fresh setup for the
\* circuit's exponent.
C17_ParameterReuse ==
  (op = "prove") =>
    /\ IsSome(params_reader) =>
         /\ ~Did("setup")
         /\ IsSome(params) => params = ParamsRead(Unwrap(params_reader)).val
         /\ IsSome(vk) => Unwrap(vk).k = Unwrap(ParamsRead(Unwrap(params_reader)).val).k
         /\ result.kind = "ok" =>
              LET loaded == Unwrap(ParamsRead(Unwrap(params_reader)).val)
              IN /\ Unwrap(ReturnedEnvelope.val).params = loaded
                 /\ result.out[1] =
                      create_proof(loaded, Unwrap(pk), Unwrap(circuit), public_vals).val
    /\ (~IsSome(params_reader) /\ IsSome(params)) =>
         /\ Did("setup")
         /\ params = Some(ParamsSetup(Unwrap(circuit).k, rng))

C17_Witness ==
  /\ op = "prove" /\ pc = "done" /\ result.kind = "ok"
  /\ IsSome(params_reader) /\ Did("read")
  /\ Unwrap(params) # ParamsSetup(Unwrap(circuit).k, rng)
  /\ Unwrap(ReturnedEnvelope.val).params = Unwrap(params)

====
